---- MODULE Spec2Model ----
(***************************************************************************)
(* A model of foox's genetic algorithm engine (foox/ga.py), of the         *)
(* word-evolving domain that plugs into it (foox/words.py) and of the      *)
(* integer genomes the engine's own tests run it with (test/test_ga.py).   *)
(*                                                                         *)
(* Genomes are objects: `heap` maps an object id to the genome's           *)
(* chromosome and cached fitness, and a population is a sequence of ids,   *)
(* so that two populations (or two slots of one population) can hold the   *)
(* same genome, as Python lists of references do.                          *)
(*                                                                         *)
(* Spec is one run of the genetic_algorithm generator, one action per      *)
(* next() of its consumer; halt is any function, its result a free choice  *)
(* at each call. CrossSpec is one call of crossover.                       *)
(*                                                                         *)
(* Numbers that are floats in the source and are only compared with each   *)
(* other (mutation_range, mutation_rate, a random.random() draw) are held  *)
(* in tenths: 10 is 1.0, 5 is 0.5.                                         *)
(***************************************************************************)
EXTENDS Integers, Sequences, FiniteSets, TLC

(***************************************************************************)
(* Bounds of the model.                                                    *)
(***************************************************************************)
\* Largest starting population.
MaxPop == 2
\* Largest generation_count a run reaches: halt is not let to return False
\* once generation_count has this value. The runs of the words domain
\* branch at every draw and are cut earlier than those of the tests'
\* deterministic generate.
MaxGen == 10
MaxWordsGen == 2
\* Longest chromosome handed to crossover in the CrossSpec specification.
MaxLen == 3

(***************************************************************************)
(* Python values.                                                          *)
(***************************************************************************)
\* genome.fitness is None or a number: <<>> is None, <<v>> is the number v.
None == <<>>

Some(v) == <<v>>

\* s[:n] of a Python list (0 <= n).
Take(s, n) == SubSeq(s, 1, IF n < Len(s) THEN n ELSE Len(s))

\* s[n:] of a Python list (0 <= n).
Drop(s, n) == SubSeq(s, (IF n < Len(s) THEN n ELSE Len(s)) + 1, Len(s))

Min2(a, b) == IF a <= b THEN a ELSE b

Abs(x) == IF x < 0 THEN -x ELSE x

(***************************************************************************)
(* foox/words.py                                                           *)
(***************************************************************************)
\* string.ascii_lowercase, cut down to its first two letters.
LETTERS == {"a", "b"}

\* The target word the words domain evolves towards.
word == <<"a", "b">>

\* One row of the Levenshtein table: the body of the loop over s1, where
\* current_row grows by one cell per character of s2.
RECURSIVE LevRow(_, _, _, _, _)
LevRow(previous_row, current_row, c1, s2, j) ==
    IF j > Len(s2) THEN current_row
    ELSE LET insertions == previous_row[j + 1] + 1
             deletions == current_row[j] + 1
             substitutions == previous_row[j] + (IF c1 # s2[j] THEN 1 ELSE 0)
         IN LevRow(previous_row,
                   Append(current_row,
                          Min2(Min2(insertions, deletions), substitutions)),
                   c1, s2, j + 1)

RECURSIVE LevRows(_, _, _, _)
LevRows(previous_row, s1, s2, i) ==
    IF i > Len(s1) THEN previous_row
    ELSE LevRows(LevRow(previous_row, <<i>>, s1[i], s2, 1), s1, s2, i + 1)

\* levenshtein(s1, s2): rows are 1-based here, so row cell j+1 is the
\* source's previous_row[j].
RECURSIVE levenshtein(_, _)
levenshtein(s1, s2) ==
    IF Len(s1) < Len(s2) THEN levenshtein(s2, s1)
    ELSE IF Len(s1) = 0 THEN Len(s2)
    ELSE LET last == LevRows([j \in 1..(Len(s2) + 1) |-> j - 1], s1, s2, 1)
         IN last[Len(last)]

\* The score the words fitness function computes from a chromosome.
WordScore(chromosome) == Abs(Len(word) - levenshtein(word, chromosome))

\* make_fitness_function(word)(genome): the returned score, which is also
\* genome.fitness when the call returns. A cached fitness is used only when
\* it is truthy: None and 0 are recomputed.
words_fitness_function(genome) ==
    IF genome.fitness # None /\ genome.fitness[1] # 0
    THEN genome.fitness[1]
    ELSE WordScore(genome.chromosome)

\* A halt that is content with a fittest genome one letter away.
words_halt_near(h, population, generation_count) ==
    LET word_length == Len(h[population[1]].chromosome)
    IN \/ (/\ h[population[1]].fitness # None
           /\ h[population[1]].fitness[1] >= word_length - 1)
       \/ generation_count > 100

\* words.halt(population, generation_generation_count): the fittest genome's fitness
\* is the length of its chromosome, or the run is past generation 100.
words_halt(h, population, generation_count) ==
    LET word_length == Len(h[population[1]].chromosome)
    IN \/ h[population[1]].fitness = Some(word_length)
       \/ generation_count > 100

(***************************************************************************)
(* foox/species/first.py: the fitness function. Scores are in tenths.      *)
(***************************************************************************)
\* is_parallel(last, current) on pairs (contrapunctus note, cantus firmus
\* note): both voices move up, or both move down.
is_parallel(last, current) ==
    \/ (last[1] - current[1] < 0 /\ last[2] - current[2] < 0)
    \/ (last[1] - current[1] > 0 /\ last[2] - current[2] > 0)

\* The loop over the body of the solution, from pair i on: acc holds
\* last_notes, last_interval, the punishments given for parallel fifths
\* and octaves, and the counts of repeats, thirds, sixths and parallel
\* motion.
RECURSIVE first_body(_, _, _)
first_body(solution, i, acc) ==
    IF i > Len(solution) THEN acc
    ELSE LET current_notes == solution[i]
             current_interval == current_notes[1] - current_notes[2]
         IN first_body(solution, i + 1,
                [last_notes |-> current_notes,
                 last_interval |-> current_interval,
                 punished |-> acc.punished +
                     (IF current_interval \in {4, 7}
                         /\ acc.last_interval \in {4, 7} THEN 1 ELSE 0),
                 repeats |-> acc.repeats +
                     (IF current_notes[1] = acc.last_notes[1] THEN 1 ELSE 0),
                 thirds |-> acc.thirds +
                     (IF current_interval = 2 /\ acc.last_interval = 2
                      THEN 1 ELSE 0),
                 sixths |-> acc.sixths +
                     (IF current_interval = 4 /\ acc.last_interval = 4
                      THEN 1 ELSE 0),
                 parallel_motion |-> acc.parallel_motion +
                     (IF is_parallel(acc.last_notes, current_notes)
                      THEN 1 ELSE 0)])

\* species.first.make_fitness_function(cantus_firmus)(genome): the score,
\* in tenths, computed from the chromosome at every call. A count exceeds
\* one_third = len(contrapunctus) % 0.33, a value in [0, 0.33), exactly
\* when it is at least 1.
first_fitness_function(genome, cantus_firmus) ==
    LET contrapunctus == genome.chromosome
        n == Len(contrapunctus)
        m == Len(cantus_firmus)
        first_interval == contrapunctus[1] - cantus_firmus[1]
        cantus_firmus_motion == cantus_firmus[m] - cantus_firmus[m - 1]
        contrapunctus_motion == contrapunctus[n] - contrapunctus[n - 1]
        penultimate_preparation ==
            Abs(contrapunctus[n - 1] - contrapunctus[n - 2])
        zipped == [i \in 1..Min2(n, m) |->
                      <<contrapunctus[i], cantus_firmus[i]>>]
        last_notes == zipped[Len(zipped)]
        body == first_body(Take(zipped, Len(zipped) - 1), 1,
                    [last_notes |-> last_notes,
                     last_interval |-> last_notes[1] - last_notes[2],
                     punished |-> 0, repeats |-> 0, thirds |-> 0,
                     sixths |-> 0, parallel_motion |-> 0])
    IN (IF first_interval = 7 \/ first_interval = 4 THEN 10 ELSE -1)
       + (IF contrapunctus[n] - cantus_firmus[m] = 7 THEN 10 ELSE -1)
       + (IF \/ (cantus_firmus_motion < 0 /\ contrapunctus_motion > 0)
             \/ (cantus_firmus_motion > 0 /\ contrapunctus_motion < 0)
          THEN 10 ELSE -1)
       + (IF penultimate_preparation = 0 THEN -1
          ELSE IF penultimate_preparation < 5 THEN 10 ELSE -1)
       - body.punished
       - (IF body.repeats >= 1 THEN 1 ELSE 0)
       - (IF body.thirds >= 1 THEN 1 ELSE 0)
       - (IF body.sixths >= 1 THEN 1 ELSE 0)
       - (IF body.parallel_motion >= 1 THEN 1 ELSE 0)

(***************************************************************************)
(* The halt functions of the counterpoint species                          *)
(***************************************************************************)
\* A halt that stops on fitness alone, with no limit on the generations.
first_halt_uncapped(h, population, generation_count) ==
    /\ h[population[1]].fitness # None
    /\ h[population[1]].fitness[1] >= 40

\* species.first.halt(population, generation_count): fitness, in tenths,
\* of at least 4, or past generation 100. None >= 4 is False in Python 2.
first_halt(h, population, generation_count) ==
    \/ (/\ h[population[1]].fitness # None
        /\ h[population[1]].fitness[1] >= 40)
    \/ generation_count > 100

\* species/fourth.py
DEFAULT_MAX_GENERATION == 100

\* The sum of the five rewards of species/fourth.py, each of them 1.
MAX_REWARD == 1 + 1 + 1 + 1 + 1

\* utils.is_suspension(melody, position, cantus_firmus), position counted
\* from 0 as in the source.
is_suspension(melody, position, cantus_firmus) ==
    LET current_note == melody[position + 1]
        resolution_note == melody[position + 2]
        cantus_firmus_note == cantus_firmus[position + 2]
        suspension_interval == current_note - cantus_firmus_note
        resolution_interval == resolution_note - cantus_firmus_note
    IN \/ (suspension_interval = 3 /\ resolution_interval = 2)
       \/ (suspension_interval = 6 /\ resolution_interval = 5)

\* species.fourth.make_halt_function(cantus_firmus)(population,
\* generation_count): fitness, in tenths, of at least MAX_REWARD plus the
\* suspensions at positions 1..len-3 of the fittest, or past the last
\* generation.
fourth_halt(h, population, generation_count, cantus_firmus) ==
    LET fittest == h[population[1]].chromosome
        suspensions == Cardinality({i \in 1..(Len(fittest) - 3) :
                          is_suspension(fittest, i, cantus_firmus)})
    IN \/ (/\ h[population[1]].fitness # None
           /\ h[population[1]].fitness[1] >= (MAX_REWARD + suspensions) * 10)
       \/ generation_count > DEFAULT_MAX_GENERATION

\* The cantus firmus the fourth-species halt function is made with.
RunCantusFirmus == <<1, 1, 1, 1, 1>>

\* halt(population, generation_count) of a genome class's module.
DomainHalt(d, h, population, generation_count) ==
    IF d = "first" THEN first_halt(h, population, generation_count)
    ELSE IF d = "fourth"
         THEN fourth_halt(h, population, generation_count, RunCantusFirmus)
         ELSE words_halt(h, population, generation_count)

(***************************************************************************)
(* foox/ga.py: Genome, crossover, roulette_wheel_selection                 *)
(***************************************************************************)
\* Genome.__init__: a new genome holds the chromosome and no fitness.
Genome(chromosome) == [chromosome |-> chromosome, fitness |-> None]

\* An equality that compares every attribute of the genomes.
GenomeEqWithFitness(a, b) == a = b

\* Genome.__eq__: genomes are equal when their chromosomes are.
GenomeEq(a, b) == a.chromosome = b.chromosome

\* Both babies built from the same halves.
CrossoverBabiesAlike(mum, dad, crossover_point) ==
    << Genome(Take(mum.chromosome, crossover_point)
                \o Drop(dad.chromosome, crossover_point)),
       Genome(Take(mum.chromosome, crossover_point)
                \o Drop(dad.chromosome, crossover_point)) >>

\* The tails cut one locus late.
CrossoverBabiesShort(mum, dad, crossover_point) ==
    << Genome(Take(mum.chromosome, crossover_point)
                \o Drop(dad.chromosome, crossover_point + 1)),
       Genome(Take(dad.chromosome, crossover_point)
                \o Drop(mum.chromosome, crossover_point + 1)) >>

\* The objects a crossover call allocates: klass(...) twice, baby1 first.
CrossoverBabies(mum, dad, crossover_point) ==
    << Genome(Take(mum.chromosome, crossover_point)
                \o Drop(dad.chromosome, crossover_point)),
       Genome(Take(dad.chromosome, crossover_point)
                \o Drop(mum.chromosome, crossover_point)) >>

\* The values random.randint(0, len(mum)) can return.
CrossoverPoints(mum) == 0..Len(mum.chromosome)

\* Parents compared as whole objects, fitness included.
CrossoverSameObject(mum, dad) == mum = dad

\* Whether crossover takes its early return.
CrossoverSame(mum, dad) == GenomeEq(mum, dad)

\* crossover(mum, dad, klass) on the objects mum and dad of heap h: every
\* outcome, as the heap after the call, the pair returned and the random
\* draws made. Equal parents are returned as they are; otherwise one point
\* is drawn and two new objects are allocated.
crossover(h, mum, dad) ==
    IF CrossoverSame(h[mum], h[dad])
    THEN {[heap |-> h, children |-> <<mum, dad>>, draws |-> <<>>]}
    ELSE {[heap |-> h \o CrossoverBabies(h[mum], h[dad], p),
           children |-> <<Len(h) + 1, Len(h) + 2>>,
           draws |-> <<p>>] : p \in CrossoverPoints(h[mum])}

\* The running sum of genome.fitness over the first i genomes of population.
RECURSIVE FitnessTally(_, _, _)
FitnessTally(h, population, i) ==
    IF i = 0 THEN 0
    ELSE FitnessTally(h, population, i - 1) + h[population[i]].fitness[1]

\* The integer parts of the values random.uniform(0.0, total_fitness) can
\* return: 0.0 + total_fitness * random.random(), with random() in [0, 1).
\* Fitness scores are whole numbers of the domain's unit, so a tally exceeds
\* the drawn point exactly when it exceeds the point's integer part.
RandomPointsInclusive(total_fitness) ==
    IF total_fitness > 0 THEN 0..total_fitness ELSE total_fitness..0
RandomPoints(total_fitness) ==
    IF total_fitness > 0 THEN 0..(total_fitness - 1) ELSE total_fitness..0

\* A wheel that stops at the first genome whose tally reaches the point.
WheelPickAtLeast(h, population, random_point) ==
    LET hits == {i \in 1..Len(population) :
                    FitnessTally(h, population, i) >= random_point}
    IN IF hits = {} THEN [kind |-> "none", genome |-> 0,
                          point |-> Some(random_point)]
       ELSE [kind |-> "genome",
             genome |-> population[CHOOSE i \in hits :
                                      \A k \in hits : i <= k],
             point |-> Some(random_point)]

\* The genome the second loop of roulette_wheel_selection returns for a
\* drawn point: the first whose tally exceeds the point, or nothing.
WheelPick(h, population, random_point) ==
    LET hits == {i \in 1..Len(population) :
                    FitnessTally(h, population, i) > random_point}
    IN IF hits = {} THEN [kind |-> "none", genome |-> 0,
                          point |-> Some(random_point)]
       ELSE [kind |-> "genome",
             genome |-> population[CHOOSE i \in hits :
                                      \A k \in hits : i <= k],
             point |-> Some(random_point)]

\* random.choice(population): any member, or IndexError when there is none.
random_choice_first(population) ==
    IF population = <<>>
    THEN {[kind |-> "error", genome |-> 0, point |-> None]}
    ELSE {[kind |-> "genome", genome |-> population[1],
          point |-> None]}
random_choice(population) ==
    IF population = <<>>
    THEN {[kind |-> "error", genome |-> 0, point |-> None]}
    ELSE {[kind |-> "genome", genome |-> population[i], point |-> None] :
             i \in 1..Len(population)}

\* roulette_wheel_selection(population): every outcome. Adding a fitness of
\* None to the total raises TypeError; random.choice of an empty population
\* raises IndexError.
roulette_uniform_selection(h, population) ==
    random_choice(population)
roulette_wheel_selection(h, population) ==
    IF \E i \in 1..Len(population) : h[population[i]].fitness = None
    THEN {[kind |-> "error", genome |-> 0, point |-> None]}
    ELSE LET total_fitness == FitnessTally(h, population, Len(population))
         IN IF total_fitness = 0
            THEN random_choice(population)
            ELSE {WheelPick(h, population, r) :
                     r \in RandomPoints(total_fitness)}

(***************************************************************************)
(* Mutation and the generate functions                                     *)
(***************************************************************************)
\* The values random.random() is let to return, in tenths: 0.0, 0.5, 0.9.
RandomDraws == {0, 5, 9}

\* words.Genome.mutate(self, mutation_rate, mutation_range, context), from
\* locus on: every outcome, as the genome after the call and the number of
\* alleles assigned. A locus is given a letter of LETTERS when
\* mutation_rate >= random.random(), and then the fitness is reset.
RECURSIVE words_mutate_from(_, _, _, _)
words_mutate_from(genome, mutation_rate, locus, replaced) ==
    IF locus > Len(genome.chromosome)
    THEN {[kind |-> "ok", genome |-> genome, replaced |-> replaced]}
    ELSE UNION {
        IF mutation_rate >= draw
        THEN UNION {words_mutate_from(
                        [genome EXCEPT !.chromosome[locus] = new_allele,
                                       !.fitness = None],
                        mutation_rate, locus + 1, replaced + 1) :
                    new_allele \in LETTERS}
        ELSE words_mutate_from(genome, mutation_rate, locus + 1, replaced)
        : draw \in RandomDraws}

\* A mutate that leaves the fitness of the genome as it found it.
words_mutate_keeping_fitness(genome, mutation_rate, mutation_range, context) ==
    {[m EXCEPT !.genome.fitness = genome.fitness] :
        m \in words_mutate_from(genome, mutation_rate, 1, 0)}

\* words.Genome.mutate: its first parameter is the rate, its second the
\* range (unused), whatever the caller meant by them.
words_mutate(genome, mutation_rate, mutation_range, context) ==
    words_mutate_from(genome, mutation_rate, 1, 0)

\* VALID_INTERVALS of species/first.py and of species/fourth.py.
VALID_INTERVALS == {2, 4, 5, 7, 9, 11}

\* [interval for interval in VALID_INTERVALS if interval <= mutation_range],
\* mutation_range being held in tenths.
valid_mutation_intervals(mutation_range) ==
    {interval \in VALID_INTERVALS : interval * 10 <= mutation_range}

\* species.first.Genome.mutate(self, mutation_rate, mutation_range,
\* context), from locus on. random.choice of an empty list of intervals
\* raises IndexError. The fitness is left as it was.
RECURSIVE first_mutate_from(_, _, _, _, _, _)
first_mutate_from(genome, mutation_rate, intervals, context, locus, replaced) ==
    IF locus > Len(genome.chromosome)
    THEN {[kind |-> "ok", genome |-> genome, replaced |-> replaced]}
    ELSE UNION {
        IF mutation_rate >= draw
        THEN IF intervals = {}
             THEN {[kind |-> "error", genome |-> genome,
                    replaced |-> replaced]}
             ELSE UNION {first_mutate_from(
                             [genome EXCEPT !.chromosome[locus] =
                                                context[locus] + mutation],
                             mutation_rate, intervals, context, locus + 1,
                             replaced + 1) :
                         mutation \in intervals}
        ELSE first_mutate_from(genome, mutation_rate, intervals, context,
                               locus + 1, replaced)
        : draw \in RandomDraws}

\* species.first.Genome.mutate: the first parameter is the rate and the
\* second the range.
first_mutate(genome, mutation_rate, mutation_range, context) ==
    first_mutate_from(genome, mutation_rate,
                      valid_mutation_intervals(mutation_range), context, 1, 0)

\* The highest note of the stave is 17: a mutation keeps below it.
fourth_valid_mutation_range(intervals, cantus_firmus_note) ==
    {interval \in intervals : interval + cantus_firmus_note < 17}

\* species.fourth.Genome.mutate(self, mutation_range, mutation_rate,
\* context), from locus on. The fitness is reset at every assignment.
RECURSIVE fourth_mutate_from(_, _, _, _, _, _)
fourth_mutate_from(genome, mutation_rate, intervals, context, locus, replaced) ==
    IF locus > Len(genome.chromosome)
    THEN {[kind |-> "ok", genome |-> genome, replaced |-> replaced]}
    ELSE UNION {
        IF mutation_rate >= draw
        THEN LET valid_mutation_range ==
                     fourth_valid_mutation_range(intervals, context[locus])
             IN IF valid_mutation_range = {}
                THEN {[kind |-> "error", genome |-> genome,
                       replaced |-> replaced]}
                ELSE UNION {fourth_mutate_from(
                                [genome EXCEPT
                                    !.chromosome[locus] =
                                        context[locus] + mutation,
                                    !.fitness = None],
                                mutation_rate, intervals, context,
                                locus + 1, replaced + 1) :
                            mutation \in valid_mutation_range}
        ELSE fourth_mutate_from(genome, mutation_rate, intervals, context,
                                locus + 1, replaced)
        : draw \in RandomDraws}

\* species.fourth.Genome.mutate: the first parameter is the range and the
\* second the rate, as in ga.Genome.mutate.
fourth_mutate(genome, mutation_range, mutation_rate, context) ==
    fourth_mutate_from(genome, mutation_rate,
                       valid_mutation_intervals(mutation_range), context,
                       1, 0)

\* genome.mutate(a1, a2, context) of the genome class of a domain: the
\* arguments are passed by position.
Mutate(d, genome, a1, a2, context) ==
    IF d = "first" THEN first_mutate(genome, a1, a2, context)
    ELSE IF d = "fourth" THEN fourth_mutate(genome, a1, a2, context)
    ELSE words_mutate(genome, a1, a2, context)

\* The `for genome in genomes: genome.mutate(...)` loop of a generate
\* function, from position i on: every heap it can leave, or an error.
RECURSIVE MutateAll(_, _, _, _, _, _)
MutateAll(d, h, genomes, i, cfg, context) ==
    IF i > Len(genomes) THEN {[kind |-> "ok", heap |-> h]}
    ELSE UNION {
        IF m.kind = "ok"
        THEN MutateAll(d, [h EXCEPT ![genomes[i]] = m.genome], genomes,
                       i + 1, cfg, context)
        ELSE {[kind |-> "error", heap |-> h]}
        : m \in Mutate(d, h[genomes[i]], cfg.mutation_range,
                       cfg.mutation_rate, context)}

\* One pass of a breeding loop: mum and dad are drawn from the seed
\* generation and bred. Every outcome, as the heap after it and the
\* children, or an error (a selection that raised or returned nothing).
BreedOnce(h, seed_generation) ==
    UNION {
        IF mum.kind = "genome" /\ dad.kind = "genome"
        THEN {[kind |-> "ok", heap |-> c.heap, children |-> c.children] :
                 c \in crossover(h, mum.genome, dad.genome)}
        ELSE {[kind |-> "error", heap |-> h, children |-> <<>>]}
        : mum \in roulette_wheel_selection(h, seed_generation),
          dad \in roulette_wheel_selection(h, seed_generation)}

\* `while len(offspring) < quota: ... offspring.extend(children)`.
RECURSIVE BreedUntil(_, _, _, _)
BreedUntil(h, seed_generation, offspring, quota) ==
    IF Len(offspring) >= quota
    THEN {[kind |-> "ok", heap |-> h, offspring |-> offspring]}
    ELSE UNION {
        IF b.kind = "ok"
        THEN BreedUntil(b.heap, seed_generation, offspring \o b.children,
                        quota)
        ELSE {[kind |-> "error", heap |-> h, offspring |-> <<>>]}
        : b \in BreedOnce(h, seed_generation)}

\* How many offspring the breeding loop of words.generate waits for.
words_offspring_quota(length) == length \div 2

\* words.make_generate_function(mutation_range, mutation_rate, word)
\* (seed_generation): the fittest half is kept, offspring are bred until
\* there are length / 2 of them, every offspring is mutated, and the whole
\* is cut to length.
words_generate(d, cfg, context, h, seed_generation) ==
    LET length == Len(seed_generation)
        new_generation == Take(seed_generation, length \div 2)
    IN UNION {
        IF b.kind = "ok"
        THEN {[kind |-> m.kind, heap |-> m.heap,
               population |-> IF m.kind = "ok"
                              THEN Take(new_generation \o b.offspring, length)
                              ELSE <<>>] :
                 m \in MutateAll(d, b.heap, b.offspring, 1, cfg, context)}
        ELSE {[kind |-> "error", heap |-> h, population |-> <<>>]}
        : b \in BreedUntil(h, seed_generation, <<>>,
                           words_offspring_quota(length))}

\* species.first.make_generate_function(mutation_range, mutation_rate,
\* cantus_firmus)(seed_generation): the fittest half is kept, children are
\* bred onto it until there are length genomes, the whole is cut to length
\* and every genome of it is mutated.
first_generate(d, cfg, context, h, seed_generation) ==
    LET length == Len(seed_generation)
    IN UNION {
        IF b.kind = "ok"
        THEN LET new_generation == Take(b.offspring, length)
             IN {[kind |-> m.kind, heap |-> m.heap,
                  population |-> IF m.kind = "ok" THEN new_generation
                                 ELSE <<>>] :
                    m \in MutateAll(d, b.heap, new_generation, 1, cfg,
                                    context)}
        ELSE {[kind |-> "error", heap |-> h, population |-> <<>>]}
        : b \in BreedUntil(h, seed_generation,
                           Take(seed_generation, length \div 2), length)}

(***************************************************************************)
(* The domains that plug into the engine                                   *)
(***************************************************************************)
Domains == {"words", "test"}

\* (mutation_range, mutation_rate) as handed to make_generate_function, in
\* tenths: (7, 0.2) as in the tests, (2, 1) and (0.5, 4).
Configs ==
    {[mutation_range |-> 70, mutation_rate |-> 2],
     [mutation_range |-> 20, mutation_rate |-> 10],
     [mutation_range |-> 5, mutation_rate |-> 40]}

\* The genomes of the engine's own tests are bare integers: start_pop is a
\* list of the integers 1..3, held here as one-allele chromosomes.
TestGenomes == {<<n>> : n \in 1..3}

\* The fitness function of test_halt_function and test_generate: the
\* genome itself. Nothing is stored in the genome.
test_fitness(genome) == genome.chromosome[1]

\* The Generate iterable of test_generate: one new genome per parent, the
\* parent plus one, in the parents' order.
test_generate(h, parent_population) ==
    {[kind |-> "ok",
      heap |-> h \o [i \in 1..Len(parent_population) |->
                        Genome(<<h[parent_population[i]].chromosome[1] + 1>>)],
      population |-> [i \in 1..Len(parent_population) |-> Len(h) + i]]}

\* The cantus firmus the first-species functions are made with.
cantus_firmus == <<3, 2, 1>>

\* The `context` a domain's generate function hands to mutate.
Context(d) == IF d = "first" THEN cantus_firmus ELSE word

\* The chromosomes of the starting populations of a domain.
InitialChromosomes(d) ==
    IF d = "words" THEN [1..Len(word) -> LETTERS] ELSE TestGenomes

\* fitness(genome) of a domain: the value returned and the genome after
\* the call (the words fitness function stores the score in it).
Fitness(d, genome) ==
    IF d = "words"
    THEN LET score == words_fitness_function(genome)
         IN [score |-> score,
             genome |-> [genome EXCEPT !.fitness = Some(score)]]
    ELSE IF d = "first"
    THEN LET fitness_score == first_fitness_function(genome, Context(d))
         IN [score |-> fitness_score,
             genome |-> [genome EXCEPT !.fitness = Some(fitness_score)]]
    ELSE [score |-> test_fitness(genome), genome |-> genome]

\* generate(seed_generation) of a domain.
Generate(d, cfg, h, seed_generation) ==
    IF d = "words"
    THEN words_generate(d, cfg, Context(d), h, seed_generation)
    ELSE IF d = "first"
    THEN first_generate(d, cfg, Context(d), h, seed_generation)
    ELSE test_generate(h, seed_generation)

\* The settings a domain's generate function is made with (the tests'
\* generate has none).
DomainConfigs(d) ==
    IF d = "words"
    THEN {c \in Configs : c.mutation_range \in {70, 5}}
    ELSE {c \in Configs : c.mutation_range = 70}

\* The last generation_count at which halt may still return False.
GenerationCap(d) == IF d = "words" THEN MaxWordsGen ELSE MaxGen

(***************************************************************************)
(* foox/ga.py: genetic_algorithm                                           *)
(***************************************************************************)
\* A sorted() that takes the key of a genome from its fitness attribute
\* when there is one, and calls the key function only otherwise.
RECURSIVE ScoreAllCached(_, _, _, _, _, _)
ScoreAllCached(d, h, genomes, i, keys, calls) ==
    IF i > Len(genomes) THEN [heap |-> h, keys |-> keys, calls |-> calls]
    ELSE IF h[genomes[i]].fitness # None
         THEN ScoreAllCached(d, h, genomes, i + 1,
                             Append(keys, h[genomes[i]].fitness[1]), calls)
         ELSE LET f == Fitness(d, h[genomes[i]])
              IN ScoreAllCached(d, [h EXCEPT ![genomes[i]] = f.genome],
                                genomes, i + 1, Append(keys, f.score),
                                Append(calls, i))

\* The key function of sorted() is called once per element, in order;
\* each call leaves the score in the genome. The heap after the calls, the
\* keys, and the positions of the list the key function was called on.
RECURSIVE ScoreAll(_, _, _, _, _, _)
ScoreAll(d, h, genomes, i, keys, calls) ==
    IF i > Len(genomes) THEN [heap |-> h, keys |-> keys, calls |-> calls]
    ELSE LET f == Fitness(d, h[genomes[i]])
         IN ScoreAll(d, [h EXCEPT ![genomes[i]] = f.genome],
                     genomes, i + 1, Append(keys, f.score), Append(calls, i))

\* A sort that puts an element ahead of those of equal key: not stable.
SortsBeforeOrWith(a, b, reverse) == IF reverse THEN a >= b ELSE a <= b

\* Whether key a sorts strictly before key b.
SortsBefore(a, b, reverse) == IF reverse THEN a > b ELSE a < b

\* The stable sort of sorted(): position i goes after every position
\* already placed whose key does not sort strictly after its own.
RECURSIVE SortPositions(_, _, _, _)
SortPositions(keys, reverse, i, placed) ==
    IF i > Len(keys) THEN placed
    ELSE LET ahead == Cardinality({n \in 1..Len(placed) :
                          ~SortsBefore(keys[i], keys[placed[n]], reverse)})
         IN SortPositions(keys, reverse, i + 1,
                          Take(placed, ahead) \o <<i>> \o Drop(placed, ahead))

\* sorted(genomes, key=fitness, reverse=reverse): the heap after the key
\* calls and the new list.
Sorted(d, h, genomes, reverse) ==
    LET scored == ScoreAll(d, h, genomes, 1, <<>>, <<>>)
        order == SortPositions(scored.keys, reverse, 1, <<>>)
    IN [heap |-> scored.heap, keys |-> scored.keys, calls |-> scored.calls,
        population |-> [n \in 1..Len(genomes) |-> genomes[order[n]]]]

\* generation_count = 0: counting from zero.
FirstGenerationCountFromZero == 1 - 1

\* generation_count = 1
FirstGenerationCount == 1

\* generation_count += 2
NextGenerationCountTwice(count) == count + 2

\* generation_count += 1
NextGenerationCount(count) == count + 1

\* The starting population sorted the other way round.
FirstSortReverseFlipped(rev) == ~rev

\* The `reverse` argument of the sorted() call on the starting population.
FirstSortReverse(rev) == rev

\* The `reverse` argument of the sorted() call on each new generation.
LoopSortReverse(rev) == TRUE

VARIABLES
    pc,                 \* where the generator is: "start" (not yet run),
                        \* "yielded", "done" (returned), "error" (raised)
    domain,             \* the domain whose functions were handed in
    cfg,                \* the mutation settings of its generate function
    reverse,            \* the reverse argument
    heap,               \* the genome objects
    population,         \* the population argument
    current_population,
    generation_count,
    emitted,            \* every population yielded so far, each with the
                        \* list it was sorted from and the heap then
    halts,              \* every call of halt so far
    call                \* CrossSpec: the crossover call made

vars == <<pc, domain, cfg, reverse, heap, population, current_population,
          generation_count, emitted, halts, call>>

\* What a yield hands to the consumer, with what the model remembers of it:
\* `generated` is the list that was sorted, `before` the heap when generate
\* was called (when the generator started, for the first), `returned` the
\* heap when generate returned, `calls` the positions of `generated` the
\* fitness function was called on, in the order of the calls.
Emission(pop, generated, before, returned, h, calls) ==
    [population |-> pop, generated |-> generated, before |-> before,
     returned |-> returned, heap |-> h, calls |-> calls]

Init ==
    /\ pc = "start"
    /\ domain \in Domains
    /\ cfg \in DomainConfigs(domain)
    /\ reverse \in BOOLEAN
    /\ \E n \in 0..MaxPop :
        /\ heap \in [1..n -> {Genome(c) : c \in InitialChromosomes(domain)}]
        /\ population = [i \in 1..n |-> i]
    /\ current_population = <<>>
    /\ generation_count = 0
    /\ emitted = <<>>
    /\ halts = <<>>
    /\ call = [op |-> "none"]

\* The first next(): the starting population is sorted and yielded.
Start ==
    /\ pc = "start"
    /\ LET s == Sorted(domain, heap, population, FirstSortReverse(reverse))
       IN /\ heap' = s.heap
          /\ current_population' = s.population
          /\ emitted' = <<Emission(s.population, population, heap, heap,
                                   s.heap, s.calls)>>
    /\ generation_count' = FirstGenerationCount
    /\ pc' = "yielded"
    /\ UNCHANGED <<domain, cfg, reverse, population, halts, call>>

\* The record of one halt call.
HaltCall(result) ==
    [population |-> current_population,
     generation_count |-> generation_count,
     emitted |-> Len(emitted), result |-> result]

\* A later next() in which halt returns True: the generator returns.
Halt ==
    /\ pc = "yielded"
    /\ halts' = Append(halts, HaltCall(TRUE))
    /\ pc' = "done"
    /\ UNCHANGED <<domain, cfg, reverse, heap, population,
                   current_population, generation_count, emitted, call>>

\* A later next() in which halt returns False: the next generation is
\* generated, sorted and yielded, or generate raises.
NextGeneration ==
    /\ pc = "yielded"
    /\ generation_count < GenerationCap(domain)
    /\ halts' = Append(halts, HaltCall(FALSE))
    /\ generation_count' = NextGenerationCount(generation_count)
    /\ \E g \in Generate(domain, cfg, heap, current_population) :
        IF g.kind = "ok"
        THEN LET s == Sorted(domain, g.heap, g.population,
                             LoopSortReverse(reverse))
             IN /\ heap' = s.heap
                /\ current_population' = s.population
                /\ emitted' = Append(emitted,
                                  Emission(s.population, g.population, heap,
                                           g.heap, s.heap, s.calls))
                /\ pc' = "yielded"
        ELSE /\ heap' = g.heap
             /\ pc' = "error"
             /\ UNCHANGED <<current_population, emitted>>
    /\ UNCHANGED <<domain, cfg, reverse, population, call>>

Next == Start \/ Halt \/ NextGeneration

Spec == Init /\ [][Next]_vars

(***************************************************************************)
(* CrossSpec: one call of crossover on two parents                         *)
(***************************************************************************)
\* The alleles of the parents handed to crossover.
CrossAlleles == {1, 2}

\* Their chromosomes: every length up to MaxLen.
CrossChromosomes == UNION {[1..n -> CrossAlleles] : n \in 0..MaxLen}

\* Their genomes: scored or not.
CrossGenomes ==
    {[chromosome |-> c, fitness |-> f] :
        c \in CrossChromosomes, f \in {None, Some(1)}}

\* crossover(mum, dad, Genome) is about to be called on two genomes, or on
\* one genome as both parents.
CrossInit ==
    /\ pc = "call"
    /\ \/ /\ heap \in [1..2 -> CrossGenomes]
          /\ call = [op |-> "pending", mum |-> 1, dad |-> 2]
       \/ /\ heap \in [1..1 -> CrossGenomes]
          /\ call = [op |-> "pending", mum |-> 1, dad |-> 1]
    /\ domain = "test"
    /\ cfg \in DomainConfigs("test")
    /\ reverse = TRUE
    /\ population = <<>>
    /\ current_population = <<>>
    /\ generation_count = 0
    /\ emitted = <<>>
    /\ halts = <<>>

\* The call returns: crossover has no raise statement and none of its
\* steps raises on chromosomes that are lists, whatever their lengths.
Crossover ==
    /\ pc = "call"
    /\ \E c \in crossover(heap, call.mum, call.dad) :
        /\ heap' = c.heap
        /\ call' = [op |-> "crossover", mum |-> call.mum, dad |-> call.dad,
                    before |-> heap, children |-> c.children,
                    draws |-> c.draws, raised |-> "nothing"]
    /\ pc' = "returned"
    /\ UNCHANGED <<domain, cfg, reverse, population, current_population,
                   generation_count, emitted, halts>>

CrossNext == Crossover

CrossSpec == CrossInit /\ [][CrossNext]_vars

(***************************************************************************)
(* One call of roulette_wheel_selection (RouletteSpec)                     *)
(***************************************************************************)
\* The largest population handed to roulette_wheel_selection.
MaxRoulettePop == 3

\* The fitness a genome of the population carries: none yet, or a score.
RouletteScores == {None, Some(-1), Some(0), Some(1), Some(2)}

\* The populations roulette_wheel_selection is called on: distinct genome
\* objects of equal chromosomes, the population naming them in heap order.
RouletteInit ==
    /\ pc = "call"
    /\ \E n \in 0..MaxRoulettePop :
          /\ heap \in [1..n -> {[chromosome |-> <<1>>, fitness |-> f] :
                                   f \in RouletteScores}]
          /\ population = [i \in 1..n |-> i]
    /\ call = [op |-> "pending"]
    /\ domain = "test"
    /\ cfg = [mutation_range |-> 70, mutation_rate |-> 2]
    /\ reverse = TRUE
    /\ current_population = <<>>
    /\ generation_count = 0
    /\ emitted = <<>>
    /\ halts = <<>>

\* The call returns a genome, returns nothing, or raises; `point` is the
\* integer part of the random point when one was drawn.
RouletteSelect ==
    /\ pc = "call"
    /\ \E o \in roulette_wheel_selection(heap, population) :
          call' = [op |-> "roulette", kind |-> o.kind, genome |-> o.genome,
                   point |-> o.point]
    /\ pc' = "returned"
    /\ UNCHANGED <<domain, cfg, reverse, heap, population,
                   current_population, generation_count, emitted, halts>>

RouletteNext == RouletteSelect

RouletteSpec == RouletteInit /\ [][RouletteNext]_vars

(***************************************************************************)
(* One call of genome.mutate (MutSpec)                                     *)
(***************************************************************************)
\* The genome classes that implement mutate.
GenomeKinds == {"words", "first", "fourth"}

\* The longest counterpoint chromosome drawn freely.
MaxMutLen == 2

\* The first two arguments of a call of mutate, by position and in tenths:
\* (2, 1) as in test_mutate_bounded_by_arg_values, (7, 0.2) as in
\* test_mutate_is_implemented and the generate tests, (2, 0), (7, 0), and
\* (0.5, 2), which reads as a rate and a range in the parameter order of
\* words.py and first.py.
MutArgs == {<<20, 10>>, <<70, 2>>, <<20, 0>>, <<70, 0>>, <<5, 20>>}

\* A chromosome and the context it is mutated in: a word against the target
\* word; a counterpoint against a cantus firmus of the same length, among
\* them the pair of test_mutate_bounded_by_arg_values.
MutInputs(d) ==
    IF d = "words"
    THEN {[chromosome |-> c, context |-> word] :
             c \in [1..Len(word) -> LETTERS]}
    ELSE {[chromosome |-> <<5, 6, 7, 8, 9>>, context |-> <<1, 1, 1, 1, 1>>]}
         \cup UNION {{[chromosome |-> c, context |-> cf] :
                         c \in [1..n -> {3, 5}], cf \in [1..n -> {1, 14}]} :
                     n \in 0..MaxMutLen}

\* A genome, scored or not, about to be mutated.
MutInit ==
    /\ pc = "call"
    /\ domain \in GenomeKinds
    /\ \E input \in MutInputs(domain), f \in {None, Some(0), Some(1)}, a \in MutArgs :
          /\ heap = <<[chromosome |-> input.chromosome, fitness |-> f]>>
          /\ call = [op |-> "pending", a1 |-> a[1], a2 |-> a[2],
                     context |-> input.context]
    /\ cfg = [mutation_range |-> 70, mutation_rate |-> 2]
    /\ reverse = TRUE
    /\ population = <<1>>
    /\ current_population = <<>>
    /\ generation_count = 0
    /\ emitted = <<>>
    /\ halts = <<>>

\* genome.mutate(a1, a2, context) returns or raises; the genome is changed
\* in place.
MutateCall ==
    /\ pc = "call"
    /\ \E m \in Mutate(domain, heap[1], call.a1, call.a2, call.context) :
          /\ heap' = <<m.genome>>
          /\ call' = [op |-> "mutate", a1 |-> call.a1, a2 |-> call.a2,
                      context |-> call.context, before |-> heap[1],
                      kind |-> m.kind, replaced |-> m.replaced]
    /\ pc' = "returned"
    /\ UNCHANGED <<domain, cfg, reverse, population, current_population,
                   generation_count, emitted, halts>>

MutNext == MutateCall

MutSpec == MutInit /\ [][MutNext]_vars

(***************************************************************************)
(* One call of a fitness function (FitSpec)                                *)
(***************************************************************************)
\* The fitness a genome carries when the fitness function is called on it:
\* none, a score, or 12345 as set by hand in
\* test_fitness_function_uses_cached_genome_fitness.
FitScores == {None, Some(0), Some(1), Some(2), Some(12345)}

\* A words genome of any length up to MaxLen, scored or not.
FitInit ==
    /\ pc = "call"
    /\ domain = "words"
    /\ \E n \in 0..MaxLen :
          \E c \in [1..n -> LETTERS], f \in FitScores :
             heap = <<[chromosome |-> c, fitness |-> f]>>
    /\ call = [op |-> "pending"]
    /\ cfg = [mutation_range |-> 70, mutation_rate |-> 2]
    /\ reverse = TRUE
    /\ population = <<1>>
    /\ current_population = <<>>
    /\ generation_count = 0
    /\ emitted = <<>>
    /\ halts = <<>>

\* fitness_function(genome) returns the score and leaves it in the genome.
FitnessCall ==
    /\ pc = "call"
    /\ LET f == Fitness(domain, heap[1])
       IN /\ heap' = <<f.genome>>
          /\ call' = [op |-> "fitness", before |-> heap[1],
                      result |-> f.score]
    /\ pc' = "returned"
    /\ UNCHANGED <<domain, cfg, reverse, population, current_population,
                   generation_count, emitted, halts>>

FitNext == FitnessCall

FitSpec == FitInit /\ [][FitNext]_vars

(***************************************************************************)
(* One comparison of two genomes (EqSpec)                                  *)
(***************************************************************************)
\* x == y is about to be evaluated on two genomes, scored or not, of
\* chromosomes of any length up to MaxLen.
EqInit ==
    /\ pc = "call"
    /\ \E x \in CrossGenomes, y \in CrossGenomes : heap = <<x, y>>
    /\ call = [op |-> "pending"]
    /\ domain = "test"
    /\ cfg = [mutation_range |-> 70, mutation_rate |-> 2]
    /\ reverse = TRUE
    /\ population = <<1, 2>>
    /\ current_population = <<>>
    /\ generation_count = 0
    /\ emitted = <<>>
    /\ halts = <<>>

\* Genome.__eq__(x, y) returns.
Compare ==
    /\ pc = "call"
    /\ call' = [op |-> "eq", result |-> GenomeEq(heap[1], heap[2])]
    /\ pc' = "returned"
    /\ UNCHANGED <<domain, cfg, reverse, heap, population,
                   current_population, generation_count, emitted, halts>>

EqNext == Compare

EqSpec == EqInit /\ [][EqNext]_vars

(***************************************************************************)
(* words.halt on a scored population (WordsHaltSpec)                       *)
(***************************************************************************)
\* The generation counts halt is called with: the first, the last that
\* does not stop the run by itself, and the one after.
HaltCounts == {1, 100, 101}

\* One or two fresh words genomes of any length up to MaxLen, and a
\* generation count.
WordsHaltInit ==
    /\ pc = "call"
    /\ domain = "words"
    /\ \E n \in 1..2 :
          /\ heap \in [1..n -> {Genome(c) :
                         c \in UNION {[1..l -> LETTERS] : l \in 0..MaxLen}}]
          /\ population = [i \in 1..n |-> i]
    /\ generation_count \in HaltCounts
    /\ call = [op |-> "pending"]
    /\ cfg = [mutation_range |-> 70, mutation_rate |-> 2]
    /\ reverse = TRUE
    /\ current_population = <<>>
    /\ emitted = <<>>
    /\ halts = <<>>

\* The population is scored and sorted fittest first, as genetic_algorithm
\* does before it calls halt, and halt is called on it.
ScoreAndHalt ==
    /\ pc = "call"
    /\ LET s == Sorted(domain, heap, population, TRUE)
       IN /\ heap' = s.heap
          /\ current_population' = s.population
          /\ call' = [op |-> "halt",
                      result |-> words_halt(s.heap, s.population,
                                            generation_count)]
    /\ pc' = "returned"
    /\ UNCHANGED <<domain, cfg, reverse, population, generation_count,
                   emitted, halts>>

WordsHaltNext == ScoreAndHalt

WordsHaltSpec == WordsHaltInit /\ [][WordsHaltNext]_vars

(***************************************************************************)
(* A run under a domain's halt function (RunSpec)                          *)
(***************************************************************************)
\* The last generation_count at which a run is followed further.
MaxRunGen == 105

\* The fittest genome of a population, whatever fitness occurs: a words
\* genome of fitness 0..2; a first-species genome unscored or of fitness
\* -0.4, 3.9 or 4; a fourth-species genome with or without a suspension,
\* of fitness 4.9, 5 or 6 (fitness of the species in tenths).
RunGenomes(d) ==
    IF d = "words"
    THEN {[chromosome |-> c, fitness |-> Some(f)] :
             c \in {word, <<"a", "a">>}, f \in 0..2}
    ELSE IF d = "first"
    THEN {[chromosome |-> <<5, 6, 7>>, fitness |-> f] :
             f \in {None, Some(-4), Some(39), Some(40)}}
    ELSE {[chromosome |-> c, fitness |-> Some(f)] :
             c \in {<<5, 4, 3, 4, 8>>, <<5, 5, 5, 5, 8>>},
             f \in {49, 50, 60}}

\* genetic_algorithm is called with the halt function of a domain; of each
\* population only the fittest genome, the one halt reads, is kept.
RunInit ==
    /\ pc = "start"
    /\ domain \in GenomeKinds
    /\ heap = <<>>
    /\ population = <<>>
    /\ current_population = <<>>
    /\ generation_count = 0
    /\ call = [op |-> "run", emitted |-> 0]
    /\ cfg = [mutation_range |-> 70, mutation_rate |-> 2]
    /\ reverse = TRUE
    /\ emitted = <<>>
    /\ halts = <<>>

\* The first next(): the starting population is sorted and yielded.
RunStart ==
    /\ pc = "start"
    /\ \E g \in RunGenomes(domain) : heap' = <<g>>
    /\ current_population' = <<1>>
    /\ generation_count' = FirstGenerationCount
    /\ call' = [call EXCEPT !.emitted = 1]
    /\ pc' = "yielded"
    /\ UNCHANGED <<domain, cfg, reverse, population, emitted, halts>>

\* A later next() in which halt returns True: the generator returns.
RunHalt ==
    /\ pc = "yielded"
    /\ DomainHalt(domain, heap, current_population, generation_count)
    /\ pc' = "done"
    /\ UNCHANGED <<domain, cfg, reverse, heap, population,
                   current_population, generation_count, emitted, halts,
                   call>>

\* A later next() in which halt returns False: the next generation is
\* generated, sorted and yielded, or generate raises.
RunNextGeneration ==
    /\ pc = "yielded"
    /\ ~DomainHalt(domain, heap, current_population, generation_count)
    /\ generation_count < MaxRunGen
    /\ generation_count' = NextGenerationCount(generation_count)
    /\ \/ /\ \E g \in RunGenomes(domain) : heap' = <<g>>
          /\ call' = [call EXCEPT !.emitted = @ + 1]
          /\ pc' = "yielded"
       \/ /\ pc' = "error"
          /\ UNCHANGED <<heap, call>>
    /\ UNCHANGED <<domain, cfg, reverse, population, current_population,
                   emitted, halts>>

RunNext == RunStart \/ RunHalt \/ RunNextGeneration

\* The consumer keeps asking for the next population until the generator
\* is exhausted.
RunSpec == RunInit /\ [][RunNext]_vars /\ WF_vars(RunNext)

(***************************************************************************)
(* A run with the first-species functions (FirstSpec)                      *)
(***************************************************************************)
\* The largest first-species population.
MaxFirstPop == 2

\* The last generation_count at which a first-species run is taken further.
MaxFirstGen == 2

\* The intervals create_population draws from, of VALID_INTERVALS.
FirstIntervals == {2, 9}

\* The chromosomes species.first.create_population builds: at every locus
\* the note of the cantus firmus plus an interval.
FirstChromosomes ==
    {[i \in 1..Len(cantus_firmus) |-> cantus_firmus[i] + iv[i]] :
        iv \in [1..Len(cantus_firmus) -> FirstIntervals]}

\* The settings the first-species generate function is made with: (7, 0.2)
\* as in the tests, and (0.5, 4).
FirstConfigs == {c \in Configs : c.mutation_range \in {70, 5}}

\* genetic_algorithm is called on a population of create_population with
\* the first-species fitness, generate and halt functions.
FirstInit ==
    /\ pc = "start"
    /\ domain = "first"
    /\ cfg \in FirstConfigs
    /\ reverse = TRUE
    /\ \E n \in 1..MaxFirstPop :
        /\ heap \in [1..n -> {Genome(c) : c \in FirstChromosomes}]
        /\ population = [i \in 1..n |-> i]
    /\ current_population = <<>>
    /\ generation_count = 0
    /\ emitted = <<>>
    /\ halts = <<>>
    /\ call = [op |-> "none"]

\* A later next(): halt is called; when it returns False the current
\* population is handed to generate, whose breeding loop hands it to
\* roulette_wheel_selection, and what generate returns is sorted and
\* yielded.
FirstNextGeneration ==
    /\ pc = "yielded"
    /\ generation_count < MaxFirstGen
    /\ halts' = Append(halts, HaltCall(
                    first_halt(heap, current_population, generation_count)))
    /\ IF first_halt(heap, current_population, generation_count)
       THEN /\ pc' = "done"
            /\ UNCHANGED <<heap, current_population, generation_count,
                           emitted, call>>
       ELSE /\ generation_count' = NextGenerationCount(generation_count)
            /\ call' = [op |-> "generate", seed |-> current_population,
                        before |-> heap]
            /\ \E g \in Generate(domain, cfg, heap, current_population) :
                IF g.kind = "ok"
                THEN LET s == Sorted(domain, g.heap, g.population,
                                     LoopSortReverse(reverse))
                     IN /\ heap' = s.heap
                        /\ current_population' = s.population
                        /\ emitted' = Append(emitted,
                                Emission(s.population, g.population, heap,
                                         g.heap, s.heap, s.calls))
                        /\ pc' = "yielded"
                ELSE /\ heap' = g.heap
                     /\ pc' = "error"
                     /\ UNCHANGED <<current_population, emitted>>
    /\ UNCHANGED <<domain, cfg, reverse, population>>

FirstNext == Start \/ FirstNextGeneration

FirstSpec == FirstInit /\ [][FirstNext]_vars

(***************************************************************************)
(* foox/lilypond.py: get_simple_contrapunctus (LilySpec). Strings are      *)
(* sequences of characters.                                                *)
(***************************************************************************)
\* NOTES: the lilypond pitch of each note 1..17.
NOTES ==
    << <<"g">>, <<"a">>, <<"b">>, <<"c", "'">>, <<"d", "'">>, <<"e", "'">>,
       <<"f", "'">>, <<"g", "'">>, <<"a", "'">>, <<"b", "'">>,
       <<"c", "'", "'">>, <<"d", "'", "'">>, <<"e", "'", "'">>,
       <<"f", "'", "'">>, <<"g", "'", "'">>, <<"a", "'", "'">>, <<"r">> >>

\* '%d' % duration, for a duration of one digit.
FormatDigit(duration) ==
    <<(<<"0", "1", "2", "3", "4", "5", "6", "7", "8", "9">>)[duration + 1]>>

\* ' '.join(strings)
RECURSIVE JoinSpaced(_)
JoinSpaced(strings) ==
    IF strings = <<>> THEN <<>>
    ELSE IF Len(strings) = 1 THEN strings[1]
    ELSE strings[1] \o <<" ">> \o JoinSpaced(Tail(strings))

\* string.replace('  ', ' '): every pair of spaces, found from the left
\* and not overlapping, becomes one space.
RECURSIVE ReplaceDoubleSpaces(_)
ReplaceDoubleSpaces(string) ==
    IF Len(string) < 2 THEN string
    ELSE IF string[1] = " " /\ string[2] = " "
    THEN <<" ">> \o ReplaceDoubleSpaces(Drop(string, 2))
    ELSE <<string[1]>> \o ReplaceDoubleSpaces(Tail(string))

\* [note for note in notes if note > 0 and note < 18]
Normalised(notes) == SelectSeq(notes, LAMBDA note : note > 0 /\ note < 18)

\* The penultimate pitch, with 'is' after its first character when the
\* final note is one above the penultimate and is not 4, 7, 11 or 14.
NextNote(penultimate_note, final_note) ==
    LET next_note == NOTES[penultimate_note]
    IN IF final_note = penultimate_note + 1 /\ final_note \notin {4, 7, 11, 14}
       THEN <<next_note[1]>> \o <<"i", "s">> \o Tail(next_note)
       ELSE next_note

\* get_simple_contrapunctus(notes, duration): the string returned, or the
\* IndexError of the second normalised.pop() when there is one note only.
get_simple_contrapunctus(notes, duration) ==
    LET normalised == Normalised(notes)
        n == Len(normalised)
    IN IF normalised = <<>> THEN [kind |-> "ok", result |-> <<>>]
       ELSE IF n < 2 THEN [kind |-> "error", result |-> <<>>]
       ELSE LET final_note == normalised[n]
                penultimate_note == normalised[n - 1]
                body == [k \in 1..(n - 3) |-> NOTES[normalised[k + 1]]]
            IN [kind |-> "ok",
                result |-> ReplaceDoubleSpaces(
                    NOTES[normalised[1]] \o <<" ">> \o FormatDigit(duration)
                    \o <<" ">> \o JoinSpaced(body)
                    \o <<" ">> \o NextNote(penultimate_note, final_note)
                    \o <<" ">> \o NOTES[final_note]
                    \o (IF duration # 1 THEN <<" ", "1">> ELSE <<>>))]

\* The most notes in a list handed to get_simple_contrapunctus.
MaxNotes == 4

\* The notes of those lists: in range, among them the cadences 4-5, 5-6
\* and 6-7, and out of range.
LilyNotes == {0, 4, 5, 6, 7, 18}

\* SPECIES_DURATION: the durations of species 1, 2 and 3.
SPECIES_DURATION == <<1, 2, 4>>

LilyInit ==
    /\ pc = "call"
    /\ \E n \in 0..MaxNotes, species \in 1..3 :
          \E notes \in [1..n -> LilyNotes] :
             call = [op |-> "pending", notes |-> notes,
                     duration |-> SPECIES_DURATION[species]]
    /\ domain = "first"
    /\ heap = <<>>
    /\ population = <<>>
    /\ cfg = [mutation_range |-> 70, mutation_rate |-> 2]
    /\ reverse = TRUE
    /\ current_population = <<>>
    /\ generation_count = 0
    /\ emitted = <<>>
    /\ halts = <<>>

\* get_simple_contrapunctus(notes, duration) returns or raises.
Render ==
    /\ pc = "call"
    /\ LET r == get_simple_contrapunctus(call.notes, call.duration)
       IN call' = [op |-> "render", notes |-> call.notes,
                   duration |-> call.duration, kind |-> r.kind,
                   result |-> r.result]
    /\ pc' = "returned"
    /\ UNCHANGED <<domain, cfg, reverse, heap, population,
                   current_population, generation_count, emitted, halts>>

LilyNext == Render

LilySpec == LilyInit /\ [][LilyNext]_vars

(***************************************************************************)
(* Properties of the evolution loop                                        *)
(***************************************************************************)
\* The rearrangements of n positions.
Perms(n) ==
    {p \in [1..n -> 1..n] : \A i, j \in 1..n : i # j => p[i] # p[j]}

\* What the domain's fitness function returns for genome id of heap h.
ScoreIn(h, id) == Fitness(domain, h[id]).score

\* fitness is non-increasing along the population of emission e.
Descending(e) ==
    \A i \in 1..(Len(e.population) - 1) :
        ScoreIn(e.heap, e.population[i]) >= ScoreIn(e.heap, e.population[i + 1])

\* C1: when halt first returns True, at generation_count = k, exactly k
\* populations have been emitted and the generator has ended; no halt call
\* follows one that returned True.
C1_HaltAtKEmitsK ==
    \A i \in 1..Len(halts) :
        halts[i].result =>
            /\ Len(emitted) = halts[i].generation_count
            /\ pc = "done"
            /\ i = Len(halts)

\* A run of ten populations, ended by halt at generation_count = 10.
C1_Witness ==
    /\ pc = "done"
    /\ Len(emitted) = 10
    /\ halts[Len(halts)].generation_count = 10
    /\ halts[Len(halts)].result

\* C2: with the default reverse=True, the first population emitted is a
\* rearrangement of the starting population with fitness non-increasing.
C2_FirstSortedDescending ==
    (reverse /\ Len(emitted) >= 1) =>
        /\ \E p \in Perms(Len(population)) :
              emitted[1].population =
                  [i \in 1..Len(population) |-> population[p[i]]]
        /\ Descending(emitted[1])

\* The starting population was not in order: the sort had work to do.
C2_Witness ==
    /\ reverse
    /\ Len(emitted) >= 1
    /\ emitted[1].population # population
    /\ \E i \in 1..(Len(population) - 1) :
          ScoreIn(emitted[1].heap, population[i])
              < ScoreIn(emitted[1].heap, population[i + 1])

\* C3: every population emitted after the first is the list generate
\* returned, rearranged so that fitness is non-increasing, genomes of equal
\* fitness in the order generate gave them.
C3_LaterSortedStable ==
    \A k \in 2..Len(emitted) :
        LET e == emitted[k]
            n == Len(e.generated)
        IN /\ e.before = emitted[k - 1].heap
           /\ Len(e.population) = n
           /\ Descending(e)
           /\ \E p \in Perms(n) :
                 /\ \A i \in 1..n : e.population[i] = e.generated[p[i]]
                 /\ \A i, j \in 1..n :
                       (i < j /\ ScoreIn(e.heap, e.population[i])
                                    = ScoreIn(e.heap, e.population[j]))
                           => p[i] < p[j]

\* generate returned two different genomes of equal fitness.
C3_Witness ==
    \E k \in 2..Len(emitted) :
        LET e == emitted[k]
        IN \E i, j \in 1..Len(e.generated) :
              /\ i < j
              /\ e.generated[i] # e.generated[j]
              /\ ScoreIn(e.heap, e.generated[i]) = ScoreIn(e.heap, e.generated[j])

\* C4: the i-th call of halt gets the i-th emitted population and
\* generation_count = i, after that population was emitted and before the
\* next one is; every emitted population but the one just yielded has had
\* its one call.
C4_HaltOncePerPopulation ==
    /\ \A i \in 1..Len(halts) :
          /\ halts[i].generation_count = i
          /\ halts[i].emitted = i
          /\ halts[i].population = emitted[i].population
    /\ pc = "yielded" => (/\ Len(halts) = Len(emitted) - 1
                          /\ generation_count = Len(emitted))
    /\ pc = "done" => (/\ Len(halts) = Len(emitted)
                       /\ generation_count = Len(emitted))

\* Three halt calls have been made and a fourth population is out.
C4_Witness ==
    /\ pc = "yielded"
    /\ Len(halts) = 3
    /\ Len(emitted) = 4

(***************************************************************************)
(* Properties of the generate functions                                    *)
(***************************************************************************)
\* C5: the words generate function returns as many genomes as it was given
\* (one or more), so every population emitted has the size of the first.
C5_PopulationSizeConstant ==
    domain = "words" =>
        \A k \in 2..Len(emitted) :
            Len(emitted[k - 1].population) >= 1 =>
                /\ Len(emitted[k].generated) = Len(emitted[k - 1].population)
                /\ Len(emitted[k].population) = Len(emitted[1].population)

\* C6: the first floor(N/2) genomes generate returns are the first
\* floor(N/2) genomes it was given, with the chromosome and the fitness they
\* had when it was called.
C6_ElitesUntouched ==
    domain = "words" =>
        \A k \in 2..Len(emitted) :
            LET seed == emitted[k - 1].population
                e == emitted[k]
            IN \A i \in 1..(Len(seed) \div 2) :
                  /\ i <= Len(e.generated)
                  /\ e.generated[i] = seed[i]
                  /\ e.returned[seed[i]] = e.before[seed[i]]

\* C7: an emitted population stays as it was emitted: every genome of it
\* has, at every later point, the chromosome it had then.
C7_EmittedNeverChanged ==
    \A k \in 1..Len(emitted) :
        \A i \in 1..Len(emitted[k].population) :
            LET id == emitted[k].population[i]
            IN heap[id].chromosome = emitted[k].heap[id].chromosome

(***************************************************************************)
(* Properties of crossover (CrossSpec)                                     *)
(***************************************************************************)
\* The chromosomes of the parents when crossover was called.
MumChromosome == call.before[call.mum].chromosome

DadChromosome == call.before[call.dad].chromosome

\* C8: crossover on parents of equal chromosomes returns (mum, dad)
\* themselves: no genome is made, no random draw, every genome as before.
C8_SameParentsReturned ==
    (call.op = "crossover" /\ MumChromosome = DadChromosome) =>
        /\ call.children = <<call.mum, call.dad>>
        /\ call.draws = <<>>
        /\ heap = call.before

\* Two objects of equal, full-length chromosomes and different fitness went
\* through crossover.
C8_Witness ==
    /\ call.op = "crossover"
    /\ call.mum # call.dad
    /\ MumChromosome = DadChromosome
    /\ Len(MumChromosome) = MaxLen
    /\ call.before[call.mum].fitness # call.before[call.dad].fitness

\* C9: for parents of different chromosomes of one length n, one point p
\* in 0..n is drawn; child_a is mum up to p and dad from p on, child_b is
\* dad up to p and mum from p on; both are new genomes without fitness and
\* the genomes there were are as before.
C9_SinglePointChildren ==
    (/\ call.op = "crossover"
     /\ MumChromosome # DadChromosome
     /\ Len(MumChromosome) = Len(DadChromosome)) =>
        LET n == Len(MumChromosome)
            a == call.children[1]
            b == call.children[2]
        IN /\ Len(call.draws) = 1
           /\ call.draws[1] \in 0..n
           /\ a \notin DOMAIN call.before
           /\ b \notin DOMAIN call.before
           /\ a # b
           /\ DOMAIN heap = DOMAIN call.before \cup {a, b}
           /\ heap[a].fitness = None
           /\ heap[b].fitness = None
           /\ DOMAIN heap[a].chromosome = 1..n
           /\ DOMAIN heap[b].chromosome = 1..n
           /\ \A i \in 1..n :
                 IF i <= call.draws[1]
                 THEN /\ heap[a].chromosome[i] = MumChromosome[i]
                      /\ heap[b].chromosome[i] = DadChromosome[i]
                 ELSE /\ heap[a].chromosome[i] = DadChromosome[i]
                      /\ heap[b].chromosome[i] = MumChromosome[i]
           /\ \A id \in DOMAIN call.before : heap[id] = call.before[id]

\* Scored parents that differ at every locus were crossed strictly inside
\* the chromosome.
C9_Witness ==
    /\ call.op = "crossover"
    /\ Len(MumChromosome) = MaxLen
    /\ Len(DadChromosome) = MaxLen
    /\ \A i \in 1..MaxLen : MumChromosome[i] # DadChromosome[i]
    /\ call.before[call.mum].fitness # None
    /\ call.draws # <<>>
    /\ call.draws[1] \in 1..(MaxLen - 1)

\* C10: children of parents of length n have length n, and swapping the
\* children's tails back at the crossover point gives the parents again
\* (at any point when the parents were returned as they are).
C10_LengthAndSymmetry ==
    (/\ call.op = "crossover"
     /\ Len(MumChromosome) = Len(DadChromosome)) =>
        LET n == Len(MumChromosome)
            child_a == heap[call.children[1]].chromosome
            child_b == heap[call.children[2]].chromosome
        IN /\ Len(child_a) = n
           /\ Len(child_b) = n
           /\ \A p \in (IF call.draws = <<>> THEN 0..n ELSE {call.draws[1]}) :
                 /\ Take(child_a, p) \o Drop(child_b, p) = MumChromosome
                 /\ Take(child_b, p) \o Drop(child_a, p) = DadChromosome
           /\ \A i \in 1..n :
                 {child_a[i], child_b[i]} = {MumChromosome[i], DadChromosome[i]}

\* Parents of full length were crossed at the last locus but one, the
\* children differing from both.
C10_Witness ==
    /\ call.op = "crossover"
    /\ Len(MumChromosome) = MaxLen
    /\ Len(DadChromosome) = MaxLen
    /\ call.draws = <<MaxLen - 1>>
    /\ heap[call.children[1]].chromosome \notin {MumChromosome, DadChromosome}
    /\ heap[call.children[2]].chromosome \notin {MumChromosome, DadChromosome}

\* C11: crossover on parents of different lengths raises LengthMismatch and
\* returns no children.
C11_LengthMismatchRaised ==
    (call.op = "crossover" /\ Len(MumChromosome) # Len(DadChromosome)) =>
        /\ call.raised = "LengthMismatch"
        /\ call.children = <<>>
        /\ heap = call.before

(***************************************************************************)
(* More properties of the evolution loop and of generate (Spec)            *)
(***************************************************************************)
\* C19: every genome generate returns after the first floor(N/2) has no
\* fitness when generate returns.
C19_OffspringUnscored ==
    domain = "words" =>
        \A k \in 2..Len(emitted) :
            LET e == emitted[k]
                n == Len(emitted[k - 1].population)
            IN \A i \in ((n \div 2) + 1)..Len(e.generated) :
                  e.returned[e.generated[i]].fitness = None

\* fitness is non-decreasing along the population of emission e.
Ascending(e) ==
    \A i \in 1..(Len(e.population) - 1) :
        ScoreIn(e.heap, e.population[i]) <= ScoreIn(e.heap, e.population[i + 1])

\* C20: with reverse=False every emitted population, the first and the
\* later ones, is in ascending order of fitness.
C20_ReverseFalseAscending ==
    ~reverse => \A k \in 1..Len(emitted) : Ascending(emitted[k])

(***************************************************************************)
(* Properties of roulette_wheel_selection (RouletteSpec)                   *)
(***************************************************************************)
\* Every genome of the population has a fitness.
AllScored ==
    \A i \in 1..Len(population) : heap[population[i]].fitness # None

\* The fitness of the whole population, when every genome has one.
TotalFitness == FitnessTally(heap, population, Len(population))

\* The genomes of the population.
Members == {population[i] : i \in 1..Len(population)}

\* C12: on a non-empty population whose genomes all have a non-negative
\* fitness, whatever the random draw, the call returns a genome and that
\* genome is a member of the population.
C12_ReturnsMember ==
    (/\ call.op = "roulette"
     /\ population # <<>>
     /\ AllScored
     /\ \A i \in 1..Len(population) : heap[population[i]].fitness[1] >= 0)
    => (call.kind = "genome" /\ call.genome \in Members)

\* A call on three scored genomes, the last of fitness zero, has returned.
C12_Witness ==
    /\ call.op = "roulette"
    /\ Len(population) = 3
    /\ AllScored
    /\ \A i \in 1..Len(population) : heap[population[i]].fitness[1] >= 0
    /\ TotalFitness > 0
    /\ heap[population[3]].fitness[1] = 0
    /\ call.kind = "genome"

\* C13: when the total fitness of a non-empty population is zero the call
\* returns a member of the population, and every member can be returned.
C13_ZeroTotalUniform ==
    (population # <<>> /\ AllScored /\ TotalFitness = 0) =>
        /\ call.op = "roulette" =>
              (call.kind = "genome" /\ call.genome \in Members)
        /\ call.op = "pending" =>
              {o.genome : o \in {x \in roulette_wheel_selection(
                                          heap, population) :
                                      x.kind = "genome"}} = Members

\* Of several genomes of total fitness zero, some of fitness not zero, the
\* last was returned.
C13_Witness ==
    /\ call.op = "roulette"
    /\ Len(population) > 1
    /\ AllScored
    /\ TotalFitness = 0
    /\ \E i \in 1..Len(population) : heap[population[i]].fitness[1] # 0
    /\ call.kind = "genome"
    /\ call.genome = population[Len(population)]

\* C14: on a population holding a genome without fitness the call raises
\* and returns no genome.
C14_UnscoredRaises ==
    (call.op = "roulette" /\ ~AllScored) => call.kind = "error"

\* A call on several genomes, the first ones scored and the last not, has
\* raised.
C14_Witness ==
    /\ call.op = "roulette"
    /\ Len(population) > 1
    /\ heap[population[1]].fitness # None
    /\ heap[population[Len(population)]].fitness = None
    /\ call.kind = "error"

(***************************************************************************)
(* Properties of mutate (MutSpec)                                          *)
(***************************************************************************)
\* C15: for every genome class, when a call of mutate that assigned at
\* least one allele returns, the genome's fitness is None.
C15_MutationResetsFitness ==
    (call.op = "mutate" /\ call.kind = "ok" /\ call.replaced > 0) =>
        heap[1].fitness = None

\* C16: mutate(mutation_range, mutation_rate, context) with mutation_rate
\* = 0, arguments in that order, leaves chromosome and fitness as they
\* were, for every genome class, range and random draw.
C16_RateZeroIdentity ==
    (call.op = "mutate" /\ call.a2 = 0) =>
        (call.kind = "ok" /\ heap[1] = call.before)

\* C17: for the counterpoint classes, mutate(mutation_range, mutation_rate,
\* context) with mutation_rate = 1 and a range that admits the interval 2
\* alone sets every locus to the context's note plus 2; [5,6,7,8,9] in the
\* context [1,1,1,1,1] becomes [3,3,3,3,3].
C17_RateOneSingleInterval ==
    (/\ call.op = "mutate"
     /\ domain \in {"first", "fourth"}
     /\ call.a2 = 10
     /\ valid_mutation_intervals(call.a1) = {2})
    => /\ call.kind = "ok"
       /\ heap[1].chromosome =
              [i \in 1..Len(call.context) |-> call.context[i] + 2]
       /\ (call.before.chromosome = <<5, 6, 7, 8, 9>>
              => heap[1].chromosome = <<3, 3, 3, 3, 3>>)

(***************************************************************************)
(* Properties of the fitness functions (FitSpec)                           *)
(***************************************************************************)
\* C18: on a genome whose fitness is set, to any value, the fitness
\* function returns that value and leaves the genome's fitness as it was.
C18_FitnessCached ==
    (call.op = "fitness" /\ call.before.fitness # None) =>
        /\ call.result = call.before.fitness[1]
        /\ heap[1].fitness = call.before.fitness

(***************************************************************************)
(* Further properties of the evolution loop (Spec)                         *)
(***************************************************************************)
\* C21: before a population is emitted the fitness function has been
\* called exactly once on each element of the list that was sorted: the
\* starting population for the first, what generate returned for the
\* later ones.
C21_FitnessOncePerGenome ==
    \A k \in 1..Len(emitted) :
        LET e == emitted[k]
        IN /\ Len(e.calls) = Len(e.generated)
           /\ \A i \in 1..Len(e.generated) :
                 Cardinality({n \in 1..Len(e.calls) : e.calls[n] = i}) = 1

\* A second population of the words domain, holding a genome that had its
\* fitness when generate returned, has been emitted.
C21_Witness ==
    /\ domain = "words"
    /\ Len(emitted) >= 2
    /\ Len(emitted[2].generated) = MaxPop
    /\ \E i \in 1..Len(emitted[2].generated) :
          emitted[2].returned[emitted[2].generated[i]].fitness # None
\* C22: when generate returns a population of another size than the one
\* it was given, the loop raises PopulationSizeChanged there; no population
\* sorted from a list of the wrong size is ever emitted.
C22_SizeChangeSurfaced ==
    \A k \in 2..Len(emitted) :
        Len(emitted[k].generated) = Len(emitted[k - 1].population)

(***************************************************************************)
(* Properties of Genome.__eq__ (EqSpec)                                    *)
(***************************************************************************)
\* C23: x == y is true exactly when the chromosomes have the same length
\* and the same allele at every locus, whatever the fitness of x and of y.
C23_EqualIffChromosomesEqual ==
    call.op = "eq" =>
        (call.result <=>
            /\ Len(heap[1].chromosome) = Len(heap[2].chromosome)
            /\ \A i \in 1..Len(heap[1].chromosome) :
                  heap[1].chromosome[i] = heap[2].chromosome[i])

\* Two genomes of one chromosome of length MaxLen, one scored and the other
\* not, were found equal.
C23_Witness ==
    /\ call.op = "eq"
    /\ call.result
    /\ Len(heap[1].chromosome) = MaxLen
    /\ heap[1].fitness # heap[2].fitness

(***************************************************************************)
(* Properties of the wheel of roulette_wheel_selection (RouletteSpec)      *)
(***************************************************************************)
\* The sum of the fitness of the first i genomes of the population.
RECURSIVE CumulativeFitness(_)
CumulativeFitness(i) ==
    IF i = 0 THEN 0
    ELSE CumulativeFitness(i - 1) + heap[population[i]].fitness[1]

\* C25: with a positive total and no negative fitness, the call draws a
\* point and returns the genome at the smallest index whose cumulative
\* fitness exceeds it; a genome of fitness 0 is never returned.
C25_FirstTallyAbovePoint ==
    (/\ call.op = "roulette"
     /\ AllScored
     /\ \A i \in 1..Len(population) : heap[population[i]].fitness[1] >= 0
     /\ TotalFitness > 0)
    => /\ call.kind = "genome"
       /\ call.point # None
       /\ \E i \in 1..Len(population) :
             /\ call.genome = population[i]
             /\ CumulativeFitness(i) > call.point[1]
             /\ \A k \in 1..(i - 1) : CumulativeFitness(k) <= call.point[1]
       /\ heap[call.genome].fitness[1] # 0

\* The wheel passed a genome of fitness 0 and one of positive fitness and
\* stopped at the last genome.
C25_Witness ==
    /\ call.op = "roulette"
    /\ Len(population) = 3
    /\ AllScored
    /\ heap[population[1]].fitness[1] = 0
    /\ heap[population[2]].fitness[1] > 0
    /\ heap[population[3]].fitness[1] > 0
    /\ call.kind = "genome"
    /\ call.genome = population[3]

C28_BestNeverWorse ==
    (domain = "words" /\ reverse) =>
        \A k \in 2..Len(emitted) :
            (Len(emitted[k - 1].population) >= 2
                /\ Len(emitted[k].population) >= 1)
            => ScoreIn(emitted[k].heap, emitted[k].population[1])
                  >= ScoreIn(emitted[k - 1].heap,
                             emitted[k - 1].population[1])

(***************************************************************************)
(* Properties of the words score and of words.halt (WordsHaltSpec)         *)
(***************************************************************************)
\* C30: a chromosome as long as the target word scores between 0 and the
\* length of the word, and the length exactly when it spells the word; so
\* halt, called with a generation count of at most 100 on the scored
\* population, returns true exactly when the fittest genome spells the word.
C30_ScoreRangeAndHalt ==
    call.op = "halt" =>
        /\ \A i \in 1..Len(current_population) :
              LET genome == heap[current_population[i]]
              IN Len(genome.chromosome) = Len(word) =>
                    /\ genome.fitness # None
                    /\ genome.fitness[1] \in 0..Len(word)
                    /\ (genome.fitness[1] = Len(word)
                           <=> genome.chromosome = word)
        /\ (/\ generation_count <= 100
            /\ Len(heap[current_population[1]].chromosome) = Len(word))
           => (call.result <=> heap[current_population[1]].chromosome = word)

\* halt returned false at generation 100 on two genomes as long as the
\* word, the fittest one letter away from it.
C30_Witness ==
    /\ call.op = "halt"
    /\ generation_count = 100
    /\ Len(current_population) = 2
    /\ \A i \in 1..2 : Len(heap[current_population[i]].chromosome) = Len(word)
    /\ heap[current_population[1]].fitness = Some(Len(word) - 1)
    /\ ~call.result

(***************************************************************************)
(* Properties of a run under a domain's halt function (RunSpec)            *)
(***************************************************************************)
\* C26: a run that uses the halt function of words, of the first species
\* or of the fourth species never emits more than 101 populations, whatever
\* the fitness of the fittest genomes, and comes to an end.
C26_HaltsWithin101 ==
    /\ [](call.emitted <= 101 /\ generation_count <= 101)
    /\ <>(pc \in {"done", "error"})

\* A fourth-species run ended at its 101st population on a fittest genome
\* below the fitness that stops a run.
C26_Witness ==
    /\ pc = "done"
    /\ domain = "fourth"
    /\ call.emitted = 101
    /\ generation_count = 101
    /\ heap[1].fitness = Some(49)

(***************************************************************************)
(* Properties of a run with the first-species functions (FirstSpec)        *)
(***************************************************************************)
\* C29: every population generate hands to roulette_wheel_selection is
\* made of genomes whose fitness is present and not negative.
C29_SelectionPrecondition ==
    call.op = "generate" =>
        \A i \in 1..Len(call.seed) :
            /\ call.before[call.seed[i]].fitness # None
            /\ call.before[call.seed[i]].fitness[1] >= 0

(***************************************************************************)
(* Properties of get_simple_contrapunctus (LilySpec)                       *)
(***************************************************************************)
\* The words of a string: its maximal runs of characters other than space.
RECURSIVE SplitWords(_, _)
SplitWords(string, current) ==
    IF string = <<>>
    THEN IF current = <<>> THEN <<>> ELSE <<current>>
    ELSE IF string[1] = " "
    THEN (IF current = <<>> THEN <<>> ELSE <<current>>)
         \o SplitWords(Tail(string), <<>>)
    ELSE SplitWords(Tail(string), Append(current, string[1]))

\* The pitch of position k of the in-range notes: the note's pitch, with
\* 'is' after its letter at the penultimate position when the final note
\* is one step above and is not 4, 7, 11 or 14.
RenderedPitch(normalised, k) ==
    LET n == Len(normalised)
        pitch == NOTES[normalised[k]]
    IN IF /\ n >= 2
          /\ k = n - 1
          /\ normalised[n] = normalised[k] + 1
          /\ normalised[n] \notin {4, 7, 11, 14}
       THEN <<pitch[1], "i", "s">> \o Tail(pitch)
       ELSE pitch

\* C24: for a list with at least one in-range note the output is, word by
\* word: the first pitch, the duration, the pitch of every further
\* in-range note in order (the penultimate sharpened when it has to be),
\* and '1' after the final pitch exactly when the duration is not 1.
C24_EveryNoteRenderedOnce ==
    (call.op = "render" /\ Normalised(call.notes) # <<>>) =>
        LET normalised == Normalised(call.notes)
            n == Len(normalised)
        IN /\ call.kind = "ok"
           /\ SplitWords(call.result, <<>>) =
                 <<RenderedPitch(normalised, 1), FormatDigit(call.duration)>>
                 \o [k \in 1..(n - 1) |-> RenderedPitch(normalised, k + 1)]
                 \o (IF call.duration # 1 THEN <<<<"1">>>> ELSE <<>>)

====
